---------------------------- MODULE Spec2Model ----------------------------
(***************************************************************************)
(* Model of pkgs/desktops/gnome/extensions/update-extensions.py: the       *)
(* paginated scrape of the extension index, the per-extension version      *)
(* selection and download, the package-name registry, and the two files    *)
(* the main block writes.                                                  *)
(*                                                                         *)
(* Python strings are sequences of one-character strings, so that          *)
(* startswith, split, replace and the JSON text are computed character by  *)
(* character.  A few fixed words of the output (dictionary keys such as    *)
(* "uuid", the URL prefix) are single elements of such a sequence.  Python *)
(* dicts are sequences of <<key, value>> pairs in insertion order.         *)
(***************************************************************************)
EXTENDS Integers, Sequences, FiniteSets, TLC

VARIABLES
    pc,                     \* position of the run in the main block
    error,                  \* which exception ended the run ("none" while running)
    page,                   \* scrape_extensions_index: page
    attempt,                \* request: attempt
    response,               \* the server's answer to the last urlopen: [code, data]
    extensions,             \* scrape_extensions_index: extensions (before the sort)
    requests,               \* the last page asked of the server, and the urlopen calls for it
    received,               \* the data of every page the server answered with 200
    raw_extensions,         \* __main__: raw_extensions
    num,                    \* __main__: number of raw records already handled
    version_map,            \* generate_extension_versions: extension_version_map
    extension_versions,     \* generate_extension_versions: extension_versions
    to_fetch,               \* versions the download loop still has to fetch
    extension_info_cache,   \* generate_extension_versions: extension_info_cache
    tries,                  \* fetch_extension_data: invocations of nix-prefetch-url so far
    process,                \* fetch_extension_data: result of the last invocation
    fetch_calls,            \* calls of fetch_extension_data: <<record number, uuid, version>>
    processed_extensions,   \* __main__: processed_extensions
    package_name_registry,  \* module level: package_name_registry
    extensions_json,        \* the file extensions.json
    collisions_json         \* the file collisions.json

vars == <<pc, error, page, attempt, response, extensions, requests, received, raw_extensions,
          num, version_map, extension_versions, to_fetch, extension_info_cache,
          tries, process, fetch_calls, processed_extensions,
          package_name_registry, extensions_json, collisions_json>>

----------------------------------------------------------------------------
(* Bounds of the model *)

\* the server is asked for at most MaxPages pages: page MaxPages is never full
MaxPages == 2
\* extensions with releases the server holds (the rest of a page is filler)
MaxReal == 2
\* version numbers offered to the version selector
MaxVersion == 2

----------------------------------------------------------------------------
(* Generic helpers *)

Range(s) == {s[i] : i \in DOMAIN s}

Max(S) == CHOOSE x \in S : \A y \in S : y <= x

Last(s) == s[Len(s)]

\* dict helpers: a dict is a sequence of <<key, value>> pairs
Keys(d) == [i \in DOMAIN d |-> d[i][1]]
Values(d) == [i \in DOMAIN d |-> d[i][2]]
HasKey(d, k) == \E i \in DOMAIN d : d[i][1] = k
Get(d, k) == d[CHOOSE i \in DOMAIN d : d[i][1] = k][2]

\* sequences over S of length at most n
SeqsUpTo(S, n) == UNION {[1..k -> S] : k \in 0..n}

RECURSIVE Concat(_)
Concat(ss) == IF ss = <<>> THEN <<>> ELSE Head(ss) \o Concat(Tail(ss))

\* str.startswith
StartsWith(s, prefix) ==
    /\ Len(prefix) <= Len(s)
    /\ SubSeq(s, 1, Len(prefix)) = prefix

\* str(int) for a non-negative int
Digit(n) == <<"0", "1", "2", "3", "4", "5", "6", "7", "8", "9">>[n + 1]

RECURSIVE IntToStr(_)
IntToStr(n) == IF n < 10 THEN <<Digit(n)>> ELSE IntToStr(n \div 10) \o <<Digit(n % 10)>>

\* float(v) of a string of decimal digits
DigitValue(c) == CHOOSE n \in 0..9 : Digit(n) = c

RECURSIVE StrToNumber(_)
StrToNumber(s) ==
    IF s = <<>> THEN 0 ELSE 10 * StrToNumber(SubSeq(s, 1, Len(s) - 1)) + DigitValue(Last(s))

\* sorted() of a set of ints, ascending
RECURSIVE SortedSet(_)
SortedSet(S) ==
    IF S = {} THEN <<>>
    ELSE LET m == CHOOSE x \in S : \A y \in S : x <= y IN <<m>> \o SortedSet(S \ {m})

----------------------------------------------------------------------------
(* supported_versions *)

V38 == <<"3", "8">>
V40 == <<"4", "0">>
V41 == <<"4", "1">>
V42 == <<"4", "2">>
V43 == <<"4", "3">>
V44 == <<"4", "4">>
V45 == <<"4", "5">>
V46 == <<"4", "6">>
V47 == <<"4", "7">>

supported_versions ==
    << <<V38, <<"3", ".", "3", "8">>>>, <<V40, V40>>, <<V41, V41>>, <<V42, V42>>,
       <<V43, V43>>, <<V44, V44>>, <<V45, V45>>, <<V46, V46>>, <<V47, V47>> >>

ShellVersions == Range(Keys(supported_versions))

----------------------------------------------------------------------------
(* generate_extension_versions, first loop: one extension version per shell version *)

\* max(..., default=None): None is the empty set, a number n is {n}
NewestCompatible(extension_version_map, version_prefix) ==
    LET matching == {extension_version_map[l] :
                        l \in {k \in DOMAIN extension_version_map : StartsWith(k, version_prefix)}}
    IN  IF matching = {} THEN {} ELSE {Max(matching)}

\* `if not extension_version`: None and 0 are both false
NotExtensionVersion(extension_version) == extension_version = {} \/ extension_version = {0}

ExtensionVersions(extension_version_map) ==
    LET kept == SelectSeq([i \in DOMAIN supported_versions |-> i],
                    LAMBDA i : ~NotExtensionVersion(
                        NewestCompatible(extension_version_map, supported_versions[i][2])))
    IN  [j \in DOMAIN kept |->
            <<supported_versions[kept[j]][1],
              Max(NewestCompatible(extension_version_map, supported_versions[kept[j]][2]))>>]

----------------------------------------------------------------------------
(* Raw records of the catalog *)

\* uuids, names and descriptions
UuidA == <<"a">>
UuidB == <<"b">>
UuidC == <<"c">>
PlainText == <<"d">>
BracesText == <<"}", "}", "}">>
QuoteText == <<"\"", "\\">>

\* "/extension/$number/$string/"
LinkFoo1 == <<"/", "extension", "/", "1", "/", "f", "o", "o", "/">>
LinkFoo2 == <<"/", "extension", "/", "2", "/", "f", "o", "o", "/">>
LinkFoo3 == <<"/", "extension", "/", "3", "/", "f", "o", "o", "/">>
LinkBar == <<"/", "extension", "/", "3", "/", "b", "a", "r", "/">>
LinkMalformed == <<"/", "f", "o", "o">>

NoReleases == [l \in {} |-> [version |-> 0]]

Releases2(l1, v1, l2, v2) ==
    [l \in {l1, l2} |-> [version |-> IF l = l1 THEN v1 ELSE v2]]

Raw(pk, uuid, description, link, shell_version_map) ==
    [pk |-> pk, uuid |-> uuid, name |-> PlainText, description |-> description,
     link |-> link, shell_version_map |-> shell_version_map]

\* the extensions with releases that the modelled server may list
RawRecords ==
    { Raw(1, UuidA, PlainText, LinkFoo1, Releases2(V46, 1, V47, 1)),
      Raw(2, UuidB, QuoteText, LinkFoo2, Releases2(V44, 2, V45, 1)),
      Raw(1, UuidA, PlainText, LinkFoo1, Releases2(V44, 1, <<"4", "4", ".", "1">>, 1)),
      Raw(2, UuidB, BracesText, LinkBar, Releases2(V47, 1, V47, 1)),
      Raw(3, UuidC, PlainText, LinkFoo3, Releases2(V45, 0, V47, 1)),
      Raw(3, UuidC, PlainText, LinkBar, Releases2(V47, 0, <<"3", ".", "3", "6">>, 1)),
      Raw(3, UuidC, PlainText, LinkMalformed, Releases2(V47, 1, V47, 1)) }

\* an extension without any release: the rest of a long page
Filler == Raw(0, <<"z">>, PlainText, LinkBar, NoReleases)

IsReal(extension) == extension # Filler

----------------------------------------------------------------------------
(* The catalog server *)

PageSize == 25

\* HTTP statuses the modelled server answers a failed urlopen with
ErrorCodes == {403, 404, 429, 500, 504}

Padding(n) == [i \in 1..n |-> Filler]

\* what the server may answer with status 200 to a request for page p, when `listed`
\* extensions with releases were already sent: some extensions with releases, alone
\* (a short page) or followed by filler up to PageSize - 1 or PageSize items
PageData(p, listed) ==
    LET reals == SeqsUpTo(RawRecords, MaxReal - listed)
        sizes(r) == {Len(r), PageSize - 1} \cup (IF p < MaxPages THEN {PageSize} ELSE {})
    IN  UNION {{r \o Padding(n - Len(r)) : n \in sizes(r)} : r \in reals}

----------------------------------------------------------------------------
(* request and scrape_extensions_index *)

retries == 5

retry_codes == <<500, 502, 503, 504>>

\* a request that retries whatever the status is
ShouldRetryAnyCode(code, att) == att < retries

\* request: `e.code in retry_codes and attempt < retries`
ShouldRetry(code, att) == code \in Range(retry_codes) /\ att < retries

\* a scrape that takes a full page for the last one
IsLastPageInclusive(response_length) == response_length <= PageSize

\* scrape_extensions_index: `response_length < 25`
IsLastPage(response_length) == response_length < PageSize

\* list.sort(key=itemgetter("pk")): a stable sort, so the records of each pk keep
\* their order, and the pks ascend
SortByPk(s) ==
    LET pks == SortedSet({s[i].pk : i \in DOMAIN s})
    IN  Concat([k \in DOMAIN pks |-> SelectSeq(s, LAMBDA x : x.pk = pks[k])])

\* where the main block goes after n of `total` raw records
MainLoopPc(n, total) == IF n < total THEN "process" ELSE "write_extensions"

NoResponse == [code |-> 0, data |-> <<>>]

NoRequests == [page |-> 0, count |-> 0]

\* one more urlopen, for page p
Requested(p) ==
    [page |-> p, count |-> IF requests.page = p THEN requests.count + 1 ELSE 1]

\* `while True: page += 1`, entering request() for the new page
ScrapePage ==
    /\ pc = "scrape"
    /\ page' = page + 1
    /\ attempt' = 0
    /\ pc' = "request"
    /\ UNCHANGED <<error, response, extensions, requests, received, raw_extensions, num,
                   version_map, extension_versions, to_fetch, extension_info_cache,
                   tries, process, fetch_calls, processed_extensions,
                   package_name_registry, extensions_json, collisions_json>>

\* the end of scrape_extensions_index: sort and return
ScrapeReturn(all) ==
    /\ raw_extensions' = SortByPk(all)
    /\ pc' = "scraped"

\* urlopen answers 200: the body of the `with request(...)` block
UrlopenOk ==
    /\ pc = "request"
    /\ \E data \in PageData(page, Len(SelectSeq(extensions, IsReal))) :
        /\ response' = [code |-> 200, data |-> data]
        /\ requests' = Requested(page)
        /\ received' = Append(received, data)
        /\ extensions' = extensions \o data
        /\ IF IsLastPage(Len(data))
           THEN ScrapeReturn(extensions')
           ELSE pc' = "scrape" /\ UNCHANGED raw_extensions
    /\ UNCHANGED <<error, page, attempt, num,
                   version_map, extension_versions, to_fetch, extension_info_cache,
                   tries, process, fetch_calls, processed_extensions,
                   package_name_registry, extensions_json, collisions_json>>

\* urlopen raises HTTPError: the except clauses of request and scrape_extensions_index
UrlopenHTTPError ==
    /\ pc = "request"
    /\ \E code \in ErrorCodes :
        /\ response' = [code |-> code, data |-> <<>>]
        /\ requests' = Requested(page)
        /\ IF ShouldRetry(code, attempt)
           THEN /\ attempt' = attempt + 1
                /\ UNCHANGED <<pc, error, raw_extensions>>
           ELSE IF code = 404
           THEN /\ ScrapeReturn(extensions)
                /\ UNCHANGED <<attempt, error>>
           ELSE /\ pc' = "fatal"
                /\ error' = "http"
                /\ UNCHANGED <<attempt, raw_extensions>>
    /\ UNCHANGED <<page, extensions, received, num,
                   version_map, extension_versions, to_fetch, extension_info_cache,
                   tries, process, fetch_calls, processed_extensions,
                   package_name_registry, extensions_json, collisions_json>>

\* `raw_extensions = scrape_extensions_index()`: the locals of the call are gone,
\* the main loop starts
MainStart ==
    /\ pc = "scraped"
    /\ pc' = MainLoopPc(0, Len(raw_extensions))
    /\ page' = 0
    /\ attempt' = 0
    /\ response' = NoResponse
    /\ extensions' = <<>>
    /\ requests' = NoRequests
    /\ received' = <<>>
    /\ UNCHANGED <<error, raw_extensions, num,
                   version_map, extension_versions, to_fetch, extension_info_cache,
                   tries, process, fetch_calls, processed_extensions,
                   package_name_registry, extensions_json, collisions_json>>

----------------------------------------------------------------------------
(* fetch_extension_data *)

\* range(0, 10)
NixTries == 10

\* what a successful nix-prefetch-url prints: the hash, then the store path
ToolStdouts == { << <<"h1">>, <<"p1">> >>, << <<"h2">>, <<"p2">> >> }

\* the metadata.json under a store path
MetadataFile(path) == IF path = <<"p1">> THEN <<"{", "}">> ELSE <<"[", "]">>

\* base64.b64encode(...).decode() of the metadata files above
Base64(text) ==
    CASE text = <<"{", "}">> -> <<"e", "3", "0", "=">>
      [] text = <<"[", "]">> -> <<"W", "1", "0", "=">>

NoProcess == [returncode |-> 1, stdout |-> <<>>]

\* a loop without the break on exit status 0
PrefetchLoopNoBreak == tries < NixTries

\* the `for _ in range(0, 10)` loop goes on: not exhausted, no break yet
PrefetchLoopRuns == tries < NixTries /\ (tries = 0 \/ process.returncode # 0)

\* lines 71-83: the tuple fetch_extension_data returns
FetchResult(stdout) == <<stdout[1], Base64(MetadataFile(stdout[2]))>>

----------------------------------------------------------------------------
(* generate_extension_versions, download and fill *)

\* a download for every shell version instead of every distinct version
VersionsPerShellVersion(versions) == Values(versions)

\* `sorted(set(extension_versions.values()))`
VersionsToFetch(versions) == SortedSet(Range(Values(versions)))

\* d[k] = v
DictSet(d, k, v) ==
    IF HasKey(d, k) THEN [i \in DOMAIN d |-> IF d[i][1] = k THEN <<k, v>> ELSE d[i]]
    ELSE Append(d, <<k, v>>)

\* extension_versions_full
ExtensionVersionsFull(versions, cache) ==
    [i \in DOMAIN versions |->
        <<versions[i][1],
          [version |-> IntToStr(versions[i][2]),
           sha256 |-> Get(cache, versions[i][2])[1],
           metadata |-> Get(cache, versions[i][2])[2]]>>]

----------------------------------------------------------------------------
(* pname_from_url and process_extension *)

\* str.split(sep)
RECURSIVE Split(_, _)
Split(s, sep) ==
    IF \A i \in DOMAIN s : s[i] # sep THEN <<s>>
    ELSE LET i == CHOOSE k \in DOMAIN s : s[k] = sep /\ \A m \in 1..(k - 1) : s[m] # sep
         IN  <<SubSeq(s, 1, i - 1)>> \o Split(SubSeq(s, i + 1, Len(s)), sep)

\* url[3] and url[2] exist
PnameFromUrlOk(url) == Len(Split(url, "/")) >= 4

pname_from_url(url) == <<Split(url, "/")[4], Split(url, "/")[3]>>

UrlBase == <<"https://extensions.gnome.org">>

\* a registration that starts the list over when the name is taken
RegisterNameOverwrite(registry, shell_version, pname, uuid) ==
    [registry EXCEPT ![shell_version] = DictSet(@, pname, <<uuid>>)]

\* lines 213-217 for one shell version
RegisterName(registry, shell_version, pname, uuid) ==
    [registry EXCEPT ![shell_version] =
        IF HasKey(@, pname)
        THEN DictSet(@, pname, Append(Get(@, pname), uuid))
        ELSE Append(@, <<pname, <<uuid>>>>)]

\* lines 212-217: `for shell_version in shell_version_map.keys()`
RECURSIVE RegisterNames(_, _, _, _)
RegisterNames(registry, shell_versions, pname, uuid) ==
    IF shell_versions = <<>> THEN registry
    ELSE RegisterNames(RegisterName(registry, Head(shell_versions), pname, uuid),
                       Tail(shell_versions), pname, uuid)

\* lines 219-226
Transformed(extension, pname, shell_version_map) ==
    [uuid |-> extension.uuid, name |-> extension.name, pname |-> pname,
     description |-> extension.description, link |-> UrlBase \o extension.link,
     shell_version_map |-> shell_version_map]

\* the locals of process_extension and generate_extension_versions go out of scope
ClearLocals ==
    /\ version_map' = NoReleases
    /\ extension_versions' = <<>>
    /\ to_fetch' = <<>>
    /\ extension_info_cache' = <<>>
    /\ tries' = 0
    /\ process' = NoProcess

\* process_extension returned None or a record: the main loop goes on
NextRecord ==
    /\ num' = num + 1
    /\ pc' = MainLoopPc(num + 1, Len(raw_extensions))

\* the main loop calls process_extension; it runs up to the first download
ProcessExtension ==
    /\ pc = "process"
    /\ LET extension == raw_extensions[num + 1]
           shell_version_map == [k \in DOMAIN extension.shell_version_map |->
                                    extension.shell_version_map[k].version]
           versions == ExtensionVersions(shell_version_map)
       IN  IF DOMAIN extension.shell_version_map = {} \/ VersionsToFetch(versions) = <<>>
           THEN \* no releases, or no compatible versions: return None
                /\ NextRecord
                /\ UNCHANGED <<version_map, extension_versions, to_fetch,
                               extension_info_cache, tries, process, fetch_calls>>
           ELSE /\ version_map' = shell_version_map
                /\ extension_versions' = versions
                /\ to_fetch' = VersionsToFetch(versions)
                /\ extension_info_cache' = <<>>
                /\ tries' = 0
                /\ process' = NoProcess
                /\ fetch_calls' = Append(fetch_calls,
                                     <<num + 1, extension.uuid, Head(VersionsToFetch(versions))>>)
                /\ pc' = "prefetch"
                /\ UNCHANGED num
    /\ UNCHANGED <<error, page, attempt, response, extensions, requests, received,
                   raw_extensions, processed_extensions, package_name_registry,
                   extensions_json, collisions_json>>

\* one subprocess.run of nix-prefetch-url
NixPrefetchUrl ==
    /\ pc = "prefetch"
    /\ PrefetchLoopRuns
    /\ tries' = tries + 1
    /\ \/ \E stdout \in ToolStdouts : process' = [returncode |-> 0, stdout |-> stdout]
       \/ process' = [returncode |-> 1, stdout |-> <<>>]
    /\ UNCHANGED <<pc, error, page, attempt, response, extensions, requests, received,
                   raw_extensions, num, version_map, extension_versions, to_fetch,
                   extension_info_cache, fetch_calls, processed_extensions,
                   package_name_registry, extensions_json, collisions_json>>

\* after the loop of fetch_extension_data: raise, or return to
\* generate_extension_versions, which fetches the next version or returns to
\* process_extension, which registers the name and returns the record
FetchReturn ==
    /\ pc = "prefetch"
    /\ ~PrefetchLoopRuns
    /\ IF process.returncode # 0
       THEN /\ pc' = "fatal"
            /\ error' = "prefetch"
            /\ UNCHANGED <<num, version_map, extension_versions, to_fetch,
                           extension_info_cache, tries, process, fetch_calls,
                           processed_extensions, package_name_registry>>
       ELSE LET extension == raw_extensions[num + 1]
                cache == DictSet(extension_info_cache, Head(to_fetch), FetchResult(process.stdout))
            IN  IF Tail(to_fetch) # <<>>
                THEN /\ extension_info_cache' = cache
                     /\ to_fetch' = Tail(to_fetch)
                     /\ tries' = 0
                     /\ process' = NoProcess
                     /\ fetch_calls' = Append(fetch_calls,
                                          <<num + 1, extension.uuid, Head(Tail(to_fetch))>>)
                     /\ UNCHANGED <<pc, error, num, version_map, extension_versions,
                                    processed_extensions, package_name_registry>>
                ELSE IF ~PnameFromUrlOk(extension.link)
                THEN /\ pc' = "fatal"
                     /\ error' = "link"
                     /\ UNCHANGED <<num, version_map, extension_versions, to_fetch,
                                    extension_info_cache, tries, process, fetch_calls,
                                    processed_extensions, package_name_registry>>
                ELSE LET full == ExtensionVersionsFull(extension_versions, cache)
                         pname == pname_from_url(extension.link)[1]
                     IN  /\ package_name_registry' =
                                RegisterNames(package_name_registry, Keys(full), pname,
                                              extension.uuid)
                         /\ processed_extensions' =
                                Append(processed_extensions, Transformed(extension, pname, full))
                         /\ NextRecord
                         /\ ClearLocals
                         /\ UNCHANGED <<error, fetch_calls>>
    /\ UNCHANGED <<page, attempt, response, extensions, requests, received,
                   raw_extensions, extensions_json, collisions_json>>

----------------------------------------------------------------------------
(* json.dumps and json.load, on the values the program writes: strings, dicts, lists *)

\* a JSON value is <<"str", characters>>, <<"obj", pairs>> or <<"arr", items>>
JStr(s) == <<"str", s>>
JObj(pairs) == <<"obj", pairs>>
JArr(items) == <<"arr", items>>

Key(word) == <<word>>

\* json.dumps(..., ensure_ascii=False) of one character of a string
EscapeChar(c) ==
    CASE c = "\"" -> <<"\\", "\"">>
      [] c = "\\" -> <<"\\", "\\">>
      [] c = "\n" -> <<"\\", "n">>
      [] OTHER -> <<c>>

DumpsString(s) == <<"\"">> \o Concat([i \in DOMAIN s |-> EscapeChar(s[i])]) \o <<"\"">>

\* ", ".join(parts)
RECURSIVE Join(_)
Join(parts) ==
    IF parts = <<>> THEN <<>>
    ELSE IF Len(parts) = 1 THEN parts[1]
    ELSE parts[1] \o <<",", " ">> \o Join(Tail(parts))

\* json.dumps with the default separators
RECURSIVE Dumps(_)
Dumps(v) ==
    CASE v[1] = "str" -> DumpsString(v[2])
      [] v[1] = "obj" ->
            <<"{">> \o Join([i \in DOMAIN v[2] |->
                          DumpsString(v[2][i][1]) \o <<":", " ">> \o Dumps(v[2][i][2])])
                \o <<"}">>
      [] v[1] = "arr" -> <<"[">> \o Join([i \in DOMAIN v[2] |-> Dumps(v[2][i])]) \o <<"]">>

JsonWhitespace == {" ", "\n", "\t", "\r"}

\* characters a strict JSON string may not hold unescaped
ControlChars == {"\n", "\t", "\r"}

\* the first position from i on that holds no whitespace
SkipWs(t, i) ==
    IF \A k \in i..Len(t) : t[k] \in JsonWhitespace THEN Len(t) + 1
    ELSE CHOOSE k \in i..Len(t) :
            t[k] \notin JsonWhitespace /\ \A m \in i..(k - 1) : t[m] \in JsonWhitespace

ParseError == [ok |-> FALSE, pos |-> 0, val |-> <<>>]

Parsed(pos, val) == [ok |-> TRUE, pos |-> pos, val |-> val]

\* the characters of a string, from position i (after the opening quote)
RECURSIVE ParseChars(_, _, _)
ParseChars(t, i, acc) ==
    IF i > Len(t) THEN ParseError
    ELSE IF t[i] = "\"" THEN Parsed(i + 1, JStr(acc))
    ELSE IF t[i] \in ControlChars THEN ParseError
    ELSE IF t[i] = "\\"
    THEN IF i + 1 > Len(t) THEN ParseError
         ELSE IF t[i + 1] \in {"\"", "\\"} THEN ParseChars(t, i + 2, Append(acc, t[i + 1]))
         ELSE IF t[i + 1] = "n" THEN ParseChars(t, i + 2, Append(acc, "\n"))
         ELSE ParseError
    ELSE ParseChars(t, i + 1, Append(acc, t[i]))

\* the value at position i; the program writes no numbers, true, false or null
RECURSIVE ParseValue(_, _)
RECURSIVE ParseMembers(_, _, _)
RECURSIVE ParseItems(_, _, _)

ParseValue(t, i) ==
    LET j == SkipWs(t, i)
    IN  IF j > Len(t) THEN ParseError
        ELSE IF t[j] = "\"" THEN ParseChars(t, j + 1, <<>>)
        ELSE IF t[j] = "{"
        THEN IF SkipWs(t, j + 1) <= Len(t) /\ t[SkipWs(t, j + 1)] = "}"
             THEN Parsed(SkipWs(t, j + 1) + 1, JObj(<<>>))
             ELSE ParseMembers(t, j + 1, <<>>)
        ELSE IF t[j] = "["
        THEN IF SkipWs(t, j + 1) <= Len(t) /\ t[SkipWs(t, j + 1)] = "]"
             THEN Parsed(SkipWs(t, j + 1) + 1, JArr(<<>>))
             ELSE ParseItems(t, j + 1, <<>>)
        ELSE ParseError

\* `"key": value` then `,` or `}`
ParseMembers(t, i, acc) ==
    LET j == SkipWs(t, i)
    IN  IF j > Len(t) \/ t[j] # "\"" THEN ParseError
        ELSE LET k == ParseChars(t, j + 1, <<>>)
             IN  IF ~k.ok THEN ParseError
                 ELSE LET c == SkipWs(t, k.pos)
                      IN  IF c > Len(t) \/ t[c] # ":" THEN ParseError
                          ELSE LET v == ParseValue(t, c + 1)
                               IN  IF ~v.ok THEN ParseError
                                   ELSE LET e == SkipWs(t, v.pos)
                                            pairs == Append(acc, <<k.val[2], v.val>>)
                                        IN  IF e > Len(t) THEN ParseError
                                            ELSE IF t[e] = "}" THEN Parsed(e + 1, JObj(pairs))
                                            ELSE IF t[e] = "," THEN ParseMembers(t, e + 1, pairs)
                                            ELSE ParseError

\* `value` then `,` or `]`
ParseItems(t, i, acc) ==
    LET v == ParseValue(t, i)
    IN  IF ~v.ok THEN ParseError
        ELSE LET e == SkipWs(t, v.pos)
                 items == Append(acc, v.val)
             IN  IF e > Len(t) THEN ParseError
                 ELSE IF t[e] = "]" THEN Parsed(e + 1, JArr(items))
                 ELSE IF t[e] = "," THEN ParseItems(t, e + 1, items)
                 ELSE ParseError

\* json.load: one value, nothing but whitespace after it
JsonLoad(t) ==
    LET v == ParseValue(t, 1)
    IN  IF v.ok /\ SkipWs(t, v.pos) = Len(t) + 1 THEN v ELSE ParseError

----------------------------------------------------------------------------
(* __main__: extensions.json *)

\* the dict process_extension returns, as a JSON value
RecordJson(r) ==
    JObj(<< <<Key("uuid"), JStr(r.uuid)>>,
            <<Key("name"), JStr(r.name)>>,
            <<Key("pname"), JStr(r.pname)>>,
            <<Key("description"), JStr(r.description)>>,
            <<Key("link"), JStr(r.link)>>,
            <<Key("shell_version_map"),
              JObj([i \in DOMAIN r.shell_version_map |->
                    <<r.shell_version_map[i][1],
                      JObj(<< <<Key("version"), JStr(r.shell_version_map[i][2].version)>>,
                              <<Key("sha256"), JStr(r.shell_version_map[i][2].sha256)>>,
                              <<Key("metadata"), JStr(r.shell_version_map[i][2].metadata)>> >>)>>])>> >>)

ListJson(records) == JArr([i \in DOMAIN records |-> RecordJson(records[i])])

\* the first occurrence of `old` in s that starts at `from` or later, 0 if none
FindFrom(s, old, from) ==
    LET starts == {k \in from..(Len(s) - Len(old) + 1) : SubSeq(s, k, k + Len(old) - 1) = old}
    IN  IF starts = {} THEN 0 ELSE CHOOSE k \in starts : \A m \in starts : k <= m

\* str.replace(old, new): the occurrences from left to right, none overlapping
RECURSIVE ReplaceFrom(_, _, _, _)
ReplaceFrom(s, old, new, from) ==
    LET k == FindFrom(s, old, from)
    IN  IF k = 0 THEN SubSeq(s, from, Len(s))
        ELSE SubSeq(s, from, k - 1) \o new \o ReplaceFrom(s, old, new, k + Len(old))

Replace(s, old, new) == ReplaceFrom(s, old, new, 1)

Indent == <<"\n", " ", " ", " ", " ">>

\* lines 313 and 315 for one version
BreakVersion(text, version) ==
    Replace(Replace(text,
                    <<"{", "\"">> \o version \o <<"\"", ":", " ", "{">>,
                    <<"{">> \o Indent \o <<"\"">> \o version \o <<"\"", ":", " ", "{">>),
            <<",", " ", "\"">> \o version \o <<"\"", ":", " ", "{">>,
            <<",">> \o Indent \o <<"\"">> \o version \o <<"\"", ":", " ", "{">>)

\* lines 311-315: `for version in supported_versions`
RECURSIVE BreakVersions(_, _)
BreakVersions(text, versions) ==
    IF versions = <<>> \/ text = <<>> THEN text
    ELSE BreakVersions(BreakVersion(text, Head(versions)), Tail(versions))

\* line 317
BreakClosing(text) == Replace(text, <<"}", "}", "}">>, <<"}", "\n", " ", " ", "}", "}">>)

\* lines 309-317: one extension as written
ExtensionText(extension) ==
    BreakClosing(BreakVersions(Dumps(RecordJson(extension)), Keys(supported_versions)))

\* lines 302-321: everything written to extensions.json
ExtensionsJsonText(records) ==
    Concat([index \in DOMAIN records |->
                (IF index = 1 THEN <<"[", " ">> ELSE <<",", " ">>)
                    \o ExtensionText(records[index]) \o <<"\n">>])
        \o <<"]", "\n">>

NoFile == [written |-> FALSE, content |-> <<>>]

\* lines 301-321
WriteExtensionsJson ==
    /\ pc = "write_extensions"
    /\ extensions_json' = [written |-> TRUE, content |-> ExtensionsJsonText(processed_extensions)]
    /\ pc' = "reparse"
    /\ UNCHANGED <<error, page, attempt, response, extensions, requests, received,
                   raw_extensions, num, version_map, extension_versions, to_fetch,
                   extension_info_cache, tries, process, fetch_calls,
                   processed_extensions, package_name_registry, collisions_json>>

\* a run that goes on whatever json.load(out) does
AfterReparseIgnored(ok) == "write_collisions"

\* where the run goes after json.load(out)
AfterReparse(ok) == IF ok THEN "write_collisions" ELSE "fatal"

\* lines 327-329
ReparseExtensionsJson ==
    /\ pc = "reparse"
    /\ pc' = AfterReparse(JsonLoad(extensions_json.content).ok)
    /\ error' = IF pc' = "fatal" THEN "json" ELSE error
    /\ UNCHANGED <<page, attempt, response, extensions, requests, received,
                   raw_extensions, num, version_map, extension_versions, to_fetch,
                   extension_info_cache, tries, process, fetch_calls,
                   processed_extensions, package_name_registry, extensions_json,
                   collisions_json>>

----------------------------------------------------------------------------
(* __main__: collisions.json *)

\* `[:3]`
CollisionVersions == 3

\* sorted(keys, key=lambda v: float(v), reverse=True)
RECURSIVE SortedByFloatReverse(_)
SortedByFloatReverse(keys) ==
    IF keys = <<>> THEN <<>>
    ELSE LET i == CHOOSE k \in DOMAIN keys :
                    /\ \A m \in DOMAIN keys : StrToNumber(keys[m]) <= StrToNumber(keys[k])
                    /\ \A m \in 1..(k - 1) : StrToNumber(keys[m]) < StrToNumber(keys[k])
         IN  <<keys[i]>> \o SortedByFloatReverse(SubSeq(keys, 1, i - 1) \o SubSeq(keys, i + 1, Len(keys)))

\* the first three shell versions of the table instead of the three highest
first_3_versions == SubSeq(Keys(supported_versions), 1, CollisionVersions)

last_3_versions ==
    SubSeq(SortedByFloatReverse(Keys(supported_versions)), 1, CollisionVersions)

\* line 334, in the order of package_name_registry.items()
RegistryForVersions(registry) ==
    LET shell_versions == SelectSeq(Keys(supported_versions),
                                    LAMBDA k : k \in Range(last_3_versions))
    IN  [i \in DOMAIN shell_versions |-> registry[shell_versions[i]]]

\* lines 336-341: pname -> set of uuids
RECURSIVE MergeNames(_, _)
MergeNames(merged, pkgs) ==
    IF pkgs = <<>> THEN merged
    ELSE LET pname == Head(pkgs)[1]
             uuids == Range(Head(pkgs)[2])
             old == IF HasKey(merged, pname) THEN Get(merged, pname) ELSE {}
         IN  MergeNames(DictSet(merged, pname, old \cup uuids), Tail(pkgs))

RECURSIVE MergeRegistries(_, _)
MergeRegistries(merged, registries) ==
    IF registries = <<>> THEN merged
    ELSE MergeRegistries(MergeNames(merged, Head(registries)), Tail(registries))

\* a filter that keeps every name
IsNonEmpty(uuids) == Cardinality(uuids) > 0

\* line 343: `len(v) > 1`
IsDuplicate(uuids) == Cardinality(uuids) > 1

package_name_registry_filtered(registry) ==
    SelectSeq(MergeRegistries(<<>>, RegistryForVersions(registry)),
              LAMBDA entry : IsDuplicate(entry[2]))

\* list(v) of a set: some order of its elements
ListsOf(S) == {l \in [1..Cardinality(S) -> S] : Range(l) = S}

\* line 345: the dicts `collisions` may be
Collisions(registry) ==
    LET filtered == package_name_registry_filtered(registry)
    IN  {c \in [DOMAIN filtered -> UNION {{<<filtered[i][1], l>> : l \in ListsOf(filtered[i][2])} :
                                            i \in DOMAIN filtered}] :
            \A i \in DOMAIN filtered : c[i][1] = filtered[i][1] /\ Range(c[i][2]) = filtered[i][2]}

\* lines 331-347; the file holds the dict `collisions`
WriteCollisionsJson ==
    /\ pc = "write_collisions"
    /\ \E collisions \in Collisions(package_name_registry) :
            collisions_json' = [written |-> TRUE, content |-> collisions]
    /\ pc' = "done"
    /\ UNCHANGED <<error, page, attempt, response, extensions, requests, received,
                   raw_extensions, num, version_map, extension_versions, to_fetch,
                   extension_info_cache, tries, process, fetch_calls,
                   processed_extensions, package_name_registry, extensions_json>>

Init ==
    /\ pc = "scrape"
    /\ error = "none"
    /\ page = 0
    /\ attempt = 0
    /\ response = NoResponse
    /\ extensions = <<>>
    /\ requests = NoRequests
    /\ received = <<>>
    /\ raw_extensions = <<>>
    /\ num = 0
    /\ version_map = NoReleases
    /\ extension_versions = <<>>
    /\ to_fetch = <<>>
    /\ extension_info_cache = <<>>
    /\ tries = 0
    /\ process = NoProcess
    /\ fetch_calls = <<>>
    /\ processed_extensions = <<>>
    /\ package_name_registry = [v \in ShellVersions |-> <<>>]
    /\ extensions_json = NoFile
    /\ collisions_json = NoFile

Next == ScrapePage \/ UrlopenOk \/ UrlopenHTTPError \/ MainStart \/ ProcessExtension
           \/ NixPrefetchUrl \/ FetchReturn \/ WriteExtensionsJson \/ ReparseExtensionsJson
           \/ WriteCollisionsJson

Spec == Init /\ [][Next]_vars

NextScrape == ScrapePage \/ UrlopenOk \/ UrlopenHTTPError

SpecScrape == Init /\ [][NextScrape]_vars

\* scrape_extensions_index runs to its end: every call blocks until it is answered
FairScrape == SpecScrape /\ WF_vars(NextScrape)

----------------------------------------------------------------------------
(* The version selection of generate_extension_versions on its own *)

\* shell versions an extension may name
SelectorLabels ==
    {V38, <<"3", ".", "3", "8">>, <<"4">>, V44, <<"4", "4", ".", "1">>, V45}

VersionMaps == UNION {[labels -> 0..MaxVersion] : labels \in SUBSET SelectorLabels}

InitSelect ==
    /\ pc = "select"
    /\ version_map \in VersionMaps
    /\ error = "none"
    /\ page = 0
    /\ attempt = 0
    /\ response = NoResponse
    /\ extensions = <<>>
    /\ requests = NoRequests
    /\ received = <<>>
    /\ raw_extensions = <<>>
    /\ num = 0
    /\ extension_versions = <<>>
    /\ to_fetch = <<>>
    /\ extension_info_cache = <<>>
    /\ tries = 0
    /\ process = NoProcess
    /\ fetch_calls = <<>>
    /\ processed_extensions = <<>>
    /\ package_name_registry = [v \in ShellVersions |-> <<>>]
    /\ extensions_json = NoFile
    /\ collisions_json = NoFile

\* lines 96-112
SelectVersions ==
    /\ pc = "select"
    /\ extension_versions' = ExtensionVersions(version_map)
    /\ pc' = "selected"
    /\ UNCHANGED <<error, page, attempt, response, extensions, requests, received,
                   raw_extensions, num, version_map, to_fetch, extension_info_cache,
                   tries, process, fetch_calls, processed_extensions,
                   package_name_registry, extensions_json, collisions_json>>

SpecSelect == InitSelect /\ [][SelectVersions]_vars

----------------------------------------------------------------------------
(* Properties *)

\* how often each item occurs in a list
BagOfItems(s) == [x \in Range(s) |-> Cardinality({i \in DOMAIN s : s[i] = x})]

\* the last answer ends the pagination: a 404, or a page of fewer than 25 items
StopResponse == response.code = 404 \/ (response.code = 200 /\ Len(response.data) < 25)

C1_Safe ==
    /\ response.code = 0 => requests.page = 0 /\ received = <<>>
    /\ response.code = 200 => requests.page = Len(received) /\ Last(received) = response.data
    /\ response.code \notin {0, 200} => requests.page = Len(received) + 1
    /\ \A k \in 1..(Len(received) - 1) : Len(received[k]) = 25
    /\ pc \in {"scrape", "request", "fatal"} => \A k \in DOMAIN received : Len(received[k]) = 25
    /\ StopResponse => pc = "scraped"
    /\ pc = "scraped" =>
        /\ StopResponse
        /\ BagOfItems(raw_extensions) = BagOfItems(Concat(received))

\* C1: scrape_extensions_index asks for page 1, 2, 3, ... in order (the page asked is
\* always the one after the pages received so far), every page before the last one
\* received is full (25 items), the scrape ends exactly at the first page that is
\* short or answers 404 and asks for nothing after it, its result holds exactly the
\* items of the pages received (a 404 adds none), and when some page is eventually
\* short or 404 the loop ends (by returning, or by a fatal HTTP error).
C1_Pagination == []C1_Safe /\ <>(pc \in {"scraped", "fatal"})

\* a full first page, then a short second page ended the scrape
C1_Witness ==
    /\ pc = "scraped"
    /\ Len(received) = 2
    /\ Len(received[1]) = 25
    /\ Len(received[2]) < 25
    /\ Len(raw_extensions) = 25 + Len(received[2])
    /\ requests.page = 2

\* C2: the extensions.json the main block writes is valid JSON that deserializes to
\* the list of transformed records, for every such list (the empty list and texts
\* holding "}}}" included), so the re-parse after writing never fails.
C2_RoundTrip ==
    extensions_json.written =>
        /\ JsonLoad(extensions_json.content).ok
        /\ JsonLoad(extensions_json.content).val = ListJson(processed_extensions)

\* C3 as claimed: within a run fetch_extension_data is called at most once for each
\* (identifier, version) pair, also when an identifier occurs in several raw records.
C3_OncePerRun ==
    \A i, j \in DOMAIN fetch_calls :
        i # j => <<fetch_calls[i][2], fetch_calls[i][3]>> # <<fetch_calls[j][2], fetch_calls[j][3]>>

\* C3 amended: while one raw record is processed, fetch_extension_data is called at
\* most once for each version, also when the version is selected for several shell
\* versions.
C3_OncePerRecord ==
    \A i, j \in DOMAIN fetch_calls : i # j => fetch_calls[i] # fetch_calls[j]

\* a record with the same version for two shell versions was processed with one download
C3_Witness ==
    \E i \in DOMAIN processed_extensions :
        LET m == processed_extensions[i].shell_version_map
        IN  /\ Len(m) >= 2
            /\ m[1][2].version = m[2][2].version
            /\ Cardinality({j \in DOMAIN fetch_calls :
                                fetch_calls[j][2] = processed_extensions[i].uuid}) = 1

\* the versions among the labels that start with a prefix
Matching(prefix) ==
    {version_map[l] : l \in {k \in DOMAIN version_map : StartsWith(k, prefix)}}

\* C4: for every map from labels to version numbers (0 included) and every supported
\* shell version, the selected version is the maximum among the labels that start with
\* its prefix, and the shell version is absent exactly when no label starts with it.
C4_Selection ==
    pc = "selected" =>
        \A i \in DOMAIN supported_versions :
            LET shell_version == supported_versions[i][1]
                matching == Matching(supported_versions[i][2])
            IN  IF matching = {} THEN ~HasKey(extension_versions, shell_version)
                ELSE /\ HasKey(extension_versions, shell_version)
                     /\ Get(extension_versions, shell_version) = Max(matching)

\* the names and identifiers collisions.json lists
ReportedNames == {collisions_json.content[i][1] : i \in DOMAIN collisions_json.content}

ReportedIds(n) == Range(Get(collisions_json.content, n))

ProcessedNames == {processed_extensions[i].pname : i \in DOMAIN processed_extensions}

\* the identifiers processed with short name n under shell version g
ProcessedIds(g, n) ==
    {processed_extensions[i].uuid :
        i \in {k \in DOMAIN processed_extensions :
                /\ processed_extensions[k].pname = n
                /\ g \in Range(Keys(processed_extensions[k].shell_version_map))}}

CollisionsListed(shell_versions) ==
    /\ \A g \in shell_versions, n \in ProcessedNames :
        Cardinality(ProcessedIds(g, n)) >= 2 =>
            n \in ReportedNames /\ ProcessedIds(g, n) \subseteq ReportedIds(n)
    /\ \A n \in ProcessedNames :
        Cardinality(UNION {ProcessedIds(g, n) : g \in ShellVersions}) <= 1 =>
            n \notin ReportedNames

\* C5 as claimed: two identifiers processed with one short name under the same shell
\* version, whichever of the supported ones, are both listed under that name in
\* collisions.json; a name with one identifier is not listed.
C5_AnyVersion == collisions_json.written => CollisionsListed(ShellVersions)

\* C5 amended: two identifiers processed with one short name under the same shell
\* version among the last three (45, 46, 47) are both listed under that name in
\* collisions.json; a name with one identifier is not listed.
C5_LastThree == collisions_json.written => CollisionsListed({V45, V46, V47})

\* two identifiers that share a name under one of the last three versions are listed
C5_Witness ==
    /\ collisions_json.written
    /\ \E g \in {V45, V46, V47}, n \in ProcessedNames :
        Cardinality(ProcessedIds(g, n)) >= 2 /\ n \in ReportedNames

\* C6 as claimed: every HTTP failure other than 404 is retried, so a fatal HTTP
\* error comes only after 6 requests for the page.
C6_EveryFailureRetried == (pc = "fatal" /\ error = "http") => requests.count = 6

\* C6 amended: an HTTP failure with status 500, 502, 503 or 504 is retried with the
\* same page number at most 5 times (6 requests for the page) and is fatal after the
\* sixth; any other failure except 404 (403, 429) is fatal at once; a success on a
\* retry continues with that page's data, and a retry does not advance the page.
C6_RetryCodes ==
    /\ requests.count <= 6
    /\ (pc = "request" /\ attempt > 0) =>
        /\ response.code \in {500, 502, 503, 504}
        /\ requests = [page |-> page, count |-> attempt]
    /\ response.code \in {500, 502, 503, 504} =>
        IF requests.count < 6
        THEN pc = "request" /\ requests = [page |-> page, count |-> attempt]
        ELSE pc = "fatal" /\ error = "http"
    /\ response.code \notin {0, 200, 404, 500, 502, 503, 504} => pc = "fatal" /\ error = "http"
    /\ (pc = "fatal" /\ error = "http") => response.code \notin {0, 200, 404}
    /\ response.code = 200 =>
        /\ Len(received) = requests.page
        /\ Last(received) = response.data
        /\ page = requests.page + (IF pc = "request" THEN 1 ELSE 0)

\* the fifth retry of page 2 succeeded
C6_Witness ==
    /\ response.code = 200
    /\ requests = [page |-> 2, count |-> 6]
    /\ pc \in {"scrape", "scraped"}

C7_Inv ==
    /\ tries \in 0..10
    /\ (pc = "fatal" /\ error = "prefetch") => tries = 10 /\ process.returncode # 0
    /\ (tries = 10 /\ process.returncode # 0) =>
            pc = "prefetch" \/ (pc = "fatal" /\ error = "prefetch")

C7_Step ==
    \* the tool is invoked only while fewer than 10 invocations were made, none of exit 0
    /\ tries' = tries + 1 => tries < 10 /\ (tries = 0 \/ process.returncode # 0)
    \* the run goes on past the download only with the result of an invocation of exit 0
    /\ (pc = "prefetch" /\ tries' = 0) =>
        /\ process.returncode = 0
        /\ \/ /\ pc' = "prefetch"
              /\ Get(extension_info_cache', Head(to_fetch)) =
                    <<process.stdout[1], Base64(MetadataFile(process.stdout[2]))>>
           \/ /\ pc' # "prefetch"
              /\ \A k \in DOMAIN Last(processed_extensions').shell_version_map :
                    LET entry == Last(processed_extensions').shell_version_map[k][2]
                    IN  entry.version = IntToStr(Head(to_fetch)) =>
                            /\ entry.sha256 = process.stdout[1]
                            /\ entry.metadata = Base64(MetadataFile(process.stdout[2]))
    \* a fatal download error comes only from 10 invocations of non-zero exit
    /\ (error = "none" /\ error' = "prefetch") => tries = 10 /\ process.returncode # 0

\* C7: fetch_extension_data invokes nix-prefetch-url at most 10 times, never again
\* after an exit status 0, returns the hash and metadata of that invocation, and
\* raises (ending the run, nothing returned) exactly when all 10 invocations failed.
C7_PrefetchRetry == []C7_Inv /\ [][C7_Step]_vars

\* the tenth invocation succeeded
C7_Witness == pc = "prefetch" /\ tries = 10 /\ process.returncode = 0

\* the identifiers the registry holds for short name n under shell version g
RegisteredIds(g, n) ==
    IF HasKey(package_name_registry[g], n) THEN Range(Get(package_name_registry[g], n)) ELSE {}

RegisteredNames == UNION {Range(Keys(package_name_registry[g])) : g \in ShellVersions}

MergedLastThree(n) == RegisteredIds(V47, n) \cup RegisteredIds(V46, n) \cup RegisteredIds(V45, n)

\* C8: collisions.json is computed from the registry entries of shell versions 47, 46
\* and 45 only: a short name is listed exactly when the identifiers registered for it
\* under these three, merged into one set, are 2 or more, and is listed once, with
\* exactly these identifiers, each once.
C8_Report ==
    collisions_json.written =>
        /\ \A n \in RegisteredNames \cup ReportedNames :
            n \in ReportedNames <=> Cardinality(MergedLastThree(n)) >= 2
        /\ \A i \in DOMAIN collisions_json.content :
            /\ Range(collisions_json.content[i][2]) = MergedLastThree(collisions_json.content[i][1])
            /\ Len(collisions_json.content[i][2]) =
                    Cardinality(MergedLastThree(collisions_json.content[i][1]))
        /\ \A i, j \in DOMAIN collisions_json.content :
            i # j => collisions_json.content[i][1] # collisions_json.content[j][1]

\* a name is listed whose identifiers never met under one shell version, while an
\* identifier is registered under two of the last three versions
C8_Witness ==
    /\ collisions_json.written
    /\ \E n \in ReportedNames :
        /\ \A g \in {V45, V46, V47} : Cardinality(RegisteredIds(g, n)) <= 1
        /\ RegisteredIds(V46, n) \cap RegisteredIds(V47, n) # {}

\* the identifiers of the processed records with short name n and shell version g
ExpectedEntry(g, n) ==
    LET rs == SelectSeq(processed_extensions,
                        LAMBDA r : r.pname = n /\ g \in Range(Keys(r.shell_version_map)))
    IN  [i \in DOMAIN rs |-> rs[i].uuid]

C9_Inv ==
    \A g \in ShellVersions :
        /\ \A i, j \in DOMAIN package_name_registry[g] :
            i # j => package_name_registry[g][i][1] # package_name_registry[g][j][1]
        /\ \A n \in ProcessedNames \cup RegisteredNames :
            IF ExpectedEntry(g, n) = <<>> THEN ~HasKey(package_name_registry[g], n)
            ELSE /\ HasKey(package_name_registry[g], n)
                 /\ Get(package_name_registry[g], n) = ExpectedEntry(g, n)

C9_Step ==
    /\ \A g \in ShellVersions :
        /\ Len(package_name_registry[g]) <= Len(package_name_registry'[g])
        /\ \A i \in DOMAIN package_name_registry[g] :
            LET old == package_name_registry[g][i]
                new == package_name_registry'[g][i]
            IN  /\ new[1] = old[1]
                /\ Len(old[2]) <= Len(new[2])
                /\ SubSeq(new[2], 1, Len(old[2])) = old[2]
    /\ (num' = num + 1 /\ processed_extensions' = processed_extensions) =>
            package_name_registry' = package_name_registry

\* C9: after any sequence of raw records, the registry entry of a shell version and a
\* short name holds, in processing order, the identifier of each processed record
\* with that short name whose version selection has that shell version, once per
\* record, and nothing else; the registry only grows by appending; a skipped record
\* leaves it as it is.
C9_Registry == []C9_Inv /\ [][C9_Step]_vars

\* an entry holds two identifiers, the second appended after a record was skipped
C9_Witness ==
    /\ \E g \in ShellVersions : \E i \in DOMAIN package_name_registry[g] :
            Len(package_name_registry[g][i][2]) = 2
    /\ num > Len(processed_extensions)

\* C10: extensions.json is written only after the scrape returned and every raw
\* record was handled; a fatal error of the scrape, a download or a link leaves both
\* files untouched; collisions.json is written only after extensions.json was written
\* and re-parsed, and not at all when the re-parse fails.
C10_PhaseOrder ==
    /\ extensions_json.written =>
        /\ pc \in {"reparse", "write_collisions", "done", "fatal"}
        /\ num = Len(raw_extensions)
    /\ error \in {"http", "prefetch", "link"} =>
        ~extensions_json.written /\ ~collisions_json.written
    /\ collisions_json.written =>
        /\ extensions_json.written
        /\ pc = "done"
        /\ JsonLoad(extensions_json.content).ok
    /\ error = "json" => extensions_json.written /\ ~collisions_json.written
    /\ pc = "fatal" <=> error # "none"

\* the re-parse of a written extensions.json failed
C10_Witness ==
    /\ pc = "fatal"
    /\ error = "json"
    /\ extensions_json.written
    /\ ~collisions_json.written
    /\ processed_extensions # <<>>

=============================================================================
